---- MODULE Spec2Model ----
(***************************************************************************)
(* A model of Synchronator (src/sync.py): the persisted sync state, the    *)
(* remote pass (execute_delta), the local pass (check_local), the transfer *)
(* calls and the chunked upload session.                                   *)
(*                                                                         *)
(* A file or directory name is a sequence of one-character strings, a path *)
(* is a sequence of names (the root directory is the empty path), so that  *)
(* startswith, endswith, split and join are computed on the characters.    *)
(***************************************************************************)
EXTENDS Integers, Sequences, FiniteSets, TLC

(***************************************************************************)
(* Bounds of the model.                                                    *)
(***************************************************************************)
\* external changes (creations, modifications, deletions on either side)
MaxExt == 3
\* runs of the program
MaxRuns == 2
\* entries the remote service returns in one page of a listing
MaxPage == 2
\* calls of check_local in one process, where a harness calls it again
MaxPasses == 2
\* whole chunks by which an uploaded file exceeds the threshold
MaxExtraChunks == 2
\* files on the local disk before the first run, where the walk is examined
MaxInitFiles == 2

(***************************************************************************)
(* Names and paths.                                                        *)
(***************************************************************************)
STATE_FILENAME ==
    << ".", "S", "y", "n", "c", "h", "r", "o", "n", "a", "t", "o", "r", "_",
       "D", "r", "o", "p", "b", "o", "x", "_", "S", "t", "a", "t", "e" >>

TOKEN_FILENAME ==
    << ".", "S", "y", "n", "c", "h", "r", "o", "n", "a", "t", "o", "r", "_",
       "T", "o", "k", "e", "n" >>

StartsWith(s, pre) == Len(s) >= Len(pre) /\ SubSeq(s, 1, Len(pre)) = pre

EndsWith(s, suf) ==
    Len(s) >= Len(suf) /\ SubSeq(s, Len(s) - Len(suf) + 1, Len(s)) = suf

\* str.lower() on one character, for the letters the model's names use
LowerChar(c) ==
    CASE c = "D" -> "d"
      [] c = "E" -> "e"
      [] c = "P" -> "p"
      [] c = "T" -> "t"
      [] c = "S" -> "s"
      [] OTHER -> c

LowerName(n) == [i \in 1..Len(n) |-> LowerChar(n[i])]

\* the lower-cased path the remote service reports and looks files up by
LowerPath(p) == [i \in 1..Len(p) |-> LowerName(p[i])]

Last(s) == s[Len(s)]

\* os.path.dirname
DirName(p) == SubSeq(p, 1, Len(p) - 1)

\* a path and all its ancestors below the root
Prefixes(p) == {SubSeq(p, 1, i) : i \in 1..Len(p)}

Put(f, k, v) == [x \in DOMAIN f \cup {k} |-> IF x = k THEN v ELSE f[x]]

Del(f, k) == [x \in DOMAIN f \ {k} |-> f[x]]

Empty == [x \in {} |-> 0]

(***************************************************************************)
(* The local walk's filters.                                               *)
(***************************************************************************)
\* the root string os.walk('.') yields for directory d, split at the
\* separator: '.', './D', './D/E' give <<".">>, <<".", D>>, <<".", D, E>>
WalkRoot(d) == << <<".">> >> \o d

\* a variant that tests the segment before, the '.' of the root, for site,
\* temp and Examples
valid_dir_for_upload_RootPart(path) ==
    /\ ~(Len(path) > 1 /\ StartsWith(path[1], <<"s", "i", "t", "e">>))
    /\ ~(Len(path) > 1 /\ path[1] \in { <<"t", "e", "m", "p">>,
                                        <<"E", "x", "a", "m", "p", "l", "e", "s">> })
    /\ \A i \in 1..Len(path) :
           ~(path[i] # <<".">> /\ StartsWith(path[i], <<".">>))

\* valid_dir_for_upload, of the split path (path[1] of the code is path[2])
valid_dir_for_upload(path) ==
    /\ ~(Len(path) > 1 /\ StartsWith(path[2], <<"s", "i", "t", "e">>))
    /\ ~(Len(path) > 1 /\ path[2] \in { <<"t", "e", "m", "p">>,
                                        <<"E", "x", "a", "m", "p", "l", "e", "s">> })
    /\ \A i \in 1..Len(path) :
           ~(path[i] # <<".">> /\ StartsWith(path[i], <<".">>))

valid_filename_for_upload(filename) ==
    ~ \/ filename = STATE_FILENAME
      \/ StartsWith(filename, <<".">>)
      \/ StartsWith(filename, <<"@">>)
      \/ EndsWith(filename, <<"~">>)
      \/ EndsWith(filename, <<".", "p", "y", "c">>)
      \/ EndsWith(filename, <<".", "p", "y", "o">>)
      \/ EndsWith(filename, <<"T", "h", "u", "m", "b", "s", ".", "d", "b">>)

\* a variant that fills an unmapped segment with the part of path_lower
EntryPath_Part(map, parts, entry_name) ==
    [i \in 1..Len(parts) |->
        IF SubSeq(parts, 1, i) \in DOMAIN map
        THEN map[SubSeq(parts, 1, i)]
        ELSE parts[i]]

(***************************************************************************)
(* Path resolution of a listed entry: parts is path_lower split at "/",    *)
(* entry_name the entry's display name. Segment i is the casing registered *)
(* for the first i parts, or else the entry's own display name.            *)
(***************************************************************************)
EntryPath(map, parts, entry_name) ==
    [i \in 1..Len(parts) |->
        IF SubSeq(parts, 1, i) \in DOMAIN map
        THEN map[SubSeq(parts, 1, i)]
        ELSE entry_name]

Meta(rev, modified) == [rev |-> rev, modified |-> modified]

NoState == [none |-> TRUE]

\* a state file pickle.load cannot read
Unreadable == [unreadable |-> TRUE]

NewState == [path_case_map |-> Empty, local_files |-> Empty, remote_files |-> Empty]

(***************************************************************************)
(* The paths the environment creates, modifies and deletes.                *)
(***************************************************************************)
Photos == <<"P", "h", "o", "t", "o", "s">>

Img == <<"i", "m", "g", ".", "p", "n", "g">>

Notes == <<"a">>

Hidden == <<".", "h">>

MainUniverse == { <<Notes>>, <<Photos, Img>>, <<Hidden>> }

Trip == <<"T", "r", "i", "p">>

\* a tree two folders deep
DeepUniverse == { <<Photos, Img>>, <<Photos, Trip, Img>> }

\* names and directories the local walk must leave out, and some it must not
Temp == <<"t", "e", "m", "p">>

Examples == <<"E", "x", "a", "m", "p", "l", "e", "s">>

SiteDir == <<"s", "i", "t", "e", "-", "p">>

DotDir == <<".", "g">>

FilterUniverse ==
    { <<Notes>>, <<Photos, Img>>, <<Photos, Temp, Notes>>,
      <<Hidden>>, <<Photos, STATE_FILENAME>>,
      << <<"@", "t">> >>, << <<"b", "~">> >>,
      << <<"m", ".", "p", "y", "c">> >>, << <<"m", ".", "p", "y", "o">> >>,
      <<Photos, <<"T", "h", "u", "m", "b", "s", ".", "d", "b">> >>,
      <<DotDir, Notes>>, <<Photos, DotDir, Notes>>,
      <<SiteDir, Notes>>, <<Temp, Notes>>, <<Examples, Notes>> }

\* what the environment writes there: a compiled file, a file of temp
FilterChanges == { << <<"m", ".", "p", "y", "c">> >>, <<Temp, Notes>> }

\* a file in a folder, and the same path with the folder's name in lower case
TwinUniverse == { <<Photos, Img>>, <<LowerName(Photos), Img>> }

\* a file in a folder of another name, and a file in a folder of its own name
OrderUniverse == { <<Photos, Img>>, <<Notes, Notes>> }

\* a name that is a file on one side and a folder on the other
FolderUniverse == { <<Photos>>, <<Photos, Img>> }

\* folders, and files with a folder's name in another casing
CaseUniverse ==
    { <<Photos, Img>>, <<LowerName(Photos)>>,
      <<Photos, Trip, Img>>, <<Photos, LowerName(Trip)>> }

(***************************************************************************)
(* State.                                                                  *)
(*   files, dirs      the local tree: file path -> modification time, and  *)
(*                    the directories below the root                       *)
(*   rfiles, rdirs    the remote folder, by lower-cased path: file ->      *)
(*                    [rev, name], folder -> display name                  *)
(*   local_files, remote_files, path_case_map                              *)
(*                    the DropboxState object of the running process       *)
(*   saved            the state file: NoState or the pickled DropboxState  *)
(*   unsent, page, has_more, current_remote_file_paths, remote_files_keys  *)
(*                    the listing loop of execute_delta                    *)
(*   filelist, tocheck, oldlist                                            *)
(*                    the loops of check_local                             *)
(*   calls            the remote calls of the current run, in order        *)
(*   passStart        the number of calls made before each local pass      *)
(*   up               the upload of one file, chunk by chunk               *)
(*   hist             of the current run: the state file it found, the     *)
(*                    states it has saved, the paths changed on both sides,*)
(*                    and how the run before it ended                      *)
(***************************************************************************)
VARIABLES pc, univ, runs, ext, clock, nextRev,
          files, dirs, rfiles, rdirs,
          local_files, remote_files, path_case_map, saved,
          unsent, page, has_more, current_remote_file_paths, remote_files_keys,
          filelist, tocheck, oldlist,
          calls, passStart, ordered, retry, watch, up, hist

vars == << pc, univ, runs, ext, clock, nextRev, files, dirs, rfiles, rdirs,
           local_files, remote_files, path_case_map, saved,
           unsent, page, has_more, current_remote_file_paths, remote_files_keys,
           filelist, tocheck, oldlist, calls, passStart, ordered, retry, watch,
           up, hist >>

worldVars == << files, dirs, rfiles, rdirs, clock, nextRev >>

stateVars == << local_files, remote_files, path_case_map >>

listVars == << unsent, page, has_more, current_remote_file_paths, remote_files_keys >>

walkVars == << filelist, tocheck, oldlist >>

histVars == << calls, passStart, ordered, retry, watch >>

UpIdle == [phase |-> "none"]

\* no run is under way; lost holds the paths the run before deleted
\* remotely without reaching its save; clean is the number of changes the
\* environment had made when the run before printed 'Sync Complete' with no
\* call failed and every folder processed before what it holds, or -1
NoHist ==
    [loaded |-> NoState, saves |-> <<>>, conflict |-> {}, gone |-> {}, lost |-> {},
     clean |-> -1]

Call(op, path, ok, rev) == [op |-> op, path |-> path, ok |-> ok, rev |-> rev]

InitWith(u) ==
    /\ pc = "idle"
    /\ univ = u
    /\ runs = 0
    /\ ext = 0
    /\ clock = 1
    /\ nextRev = 1
    /\ files = Empty
    /\ dirs = {}
    /\ rfiles = Empty
    /\ rdirs = Empty
    /\ local_files = Empty
    /\ remote_files = Empty
    /\ path_case_map = Empty
    /\ saved = NoState
    /\ unsent = {}
    /\ page = {}
    /\ has_more = FALSE
    /\ current_remote_file_paths = {}
    /\ remote_files_keys = {}
    /\ filelist = {}
    /\ tocheck = {}
    /\ oldlist = {}
    /\ calls = <<>>
    /\ passStart = <<>>
    /\ ordered = TRUE
    /\ retry = {}
    /\ watch = {}
    /\ hist = NoHist

Init == InitWith(MainUniverse) /\ up = UpIdle

(***************************************************************************)
(* The environment, between runs: a file is written or deleted locally, a  *)
(* remote object is put or deleted by another client.                      *)
(***************************************************************************)
\* the remote folder after a file is written at path with revision rev:
\* missing ancestor folders are created with the casing of path
RemoteWriteFiles(rf, path, rev) ==
    Put(rf, LowerPath(path),
        [rev |-> rev,
         name |-> IF LowerPath(path) \in DOMAIN rf
                  THEN rf[LowerPath(path)].name ELSE Last(path)])

RemoteWriteDirs(rd, path) ==
    [k \in DOMAIN rd \cup {LowerPath(q) : q \in Prefixes(DirName(path))} |->
        IF k \in DOMAIN rd THEN rd[k]
        ELSE Last(CHOOSE q \in Prefixes(DirName(path)) : LowerPath(q) = k)]

\* the service keeps a path from being a file and a folder at once
RemoteCanWrite(path) ==
    /\ LowerPath(path) \notin DOMAIN rdirs
    /\ \A q \in Prefixes(DirName(path)) : LowerPath(q) \notin DOMAIN rfiles

LocalWrite(p) ==
    /\ p \notin dirs
    /\ \A q \in Prefixes(DirName(p)) : q \notin DOMAIN files
    /\ clock' = clock + 1
    /\ files' = Put(files, p, clock + 1)
    /\ dirs' = dirs \cup Prefixes(DirName(p))
    /\ retry' = retry \ {p}
    /\ UNCHANGED << rfiles, rdirs, nextRev >>

LocalDelete(p) ==
    /\ p \in DOMAIN files
    /\ files' = Del(files, p)
    /\ retry' = retry \ {p}
    /\ UNCHANGED << dirs, clock, rfiles, rdirs, nextRev >>

RemotePut(p) ==
    /\ RemoteCanWrite(p)
    /\ rfiles' = RemoteWriteFiles(rfiles, p, nextRev)
    /\ rdirs' = RemoteWriteDirs(rdirs, p)
    /\ nextRev' = nextRev + 1
    /\ retry' = retry \ {p}
    /\ UNCHANGED << files, dirs, clock >>

RemoteDelete(p) ==
    /\ LowerPath(p) \in DOMAIN rfiles
    /\ rfiles' = Del(rfiles, LowerPath(p))
    /\ retry' = retry \ {p}
    /\ UNCHANGED << files, dirs, clock, rdirs, nextRev >>

\* a remote folder is deleted with all it holds
Under(k, d) == Len(k) >= Len(d) /\ SubSeq(k, 1, Len(d)) = d

RemoteRemoveFolder(d) ==
    /\ LowerPath(d) \in DOMAIN rdirs
    /\ rdirs' = [k \in {x \in DOMAIN rdirs : ~Under(x, LowerPath(d))} |-> rdirs[k]]
    /\ rfiles' = [k \in {x \in DOMAIN rfiles : ~Under(x, LowerPath(d))} |-> rfiles[k]]
    /\ retry' = {r \in retry : ~Under(LowerPath(r), LowerPath(d))}
    /\ UNCHANGED << files, dirs, clock, nextRev >>

\* a local directory is removed with all it holds, and a file is written
\* under its name
LocalReplaceDir(d) ==
    /\ d \in dirs
    /\ clock' = clock + 1
    /\ files' = [f \in {x \in DOMAIN files : ~Under(x, d)} \cup {d} |->
                    IF f = d THEN clock + 1 ELSE files[f]]
    /\ dirs' = {x \in dirs : ~Under(x, d)}
    /\ retry' = {r \in retry : ~Under(r, d)}
    /\ UNCHANGED << rfiles, rdirs, nextRev >>

External ==
    /\ pc = "idle"
    /\ ext < MaxExt
    /\ ext' = ext + 1
    /\ \E p \in univ :
          \/ LocalWrite(p)
          \/ LocalDelete(p)
          \/ RemotePut(p)
          \/ RemoteDelete(p)
          \/ \E d \in Prefixes(DirName(p)) : RemoteRemoveFolder(d)
    /\ UNCHANGED << pc, univ, runs, stateVars, saved, listVars, walkVars,
                    calls, passStart, ordered, watch, up, hist >>

(***************************************************************************)
(* A run: __main__ loads the state and enters the remote pass.             *)
(***************************************************************************)
\* a variant that never reads the state file
load_state_Fresh == NewState

\* a variant that empties path_case_map of every state it reads
load_state_ResetMap ==
    IF saved \in {NoState, Unreadable} THEN NewState
    ELSE [path_case_map |-> Empty, local_files |-> saved.local_files,
          remote_files |-> saved.remote_files]

\* load_state: the pickled state, with an empty path_case_map when it has
\* none, or a new state when there is no state file or it cannot be read
load_state ==
    IF saved \in {NoState, Unreadable} THEN NewState
    ELSE IF "path_case_map" \notin DOMAIN saved
    THEN [path_case_map |-> Empty, local_files |-> saved.local_files,
          remote_files |-> saved.remote_files]
    ELSE saved

\* the recorded paths whose local file is newer than its record while the
\* remote file has another revision, or is gone
ChangedLocally(p) ==
    p \in DOMAIN files /\ files[p] > load_state.local_files[p].modified

ChangedBoth ==
    {p \in DOMAIN load_state.local_files :
        /\ ChangedLocally(p)
        /\ LowerPath(p) \in DOMAIN rfiles
        /\ rfiles[LowerPath(p)].rev # load_state.local_files[p].rev}

ChangedAndGone ==
    {p \in DOMAIN load_state.local_files :
        ChangedLocally(p) /\ LowerPath(p) \notin DOMAIN rfiles}

StartRun ==
    /\ pc = "idle"
    /\ runs < MaxRuns
    /\ local_files' = load_state.local_files
    /\ remote_files' = load_state.remote_files
    /\ path_case_map' = load_state.path_case_map
    /\ calls' = <<>>
    /\ passStart' = <<>>
    /\ ordered' = TRUE
    /\ watch' = retry
    /\ retry' = {}
    /\ pc' = "list"
    /\ hist' = [loaded |-> saved, saves |-> <<>>,
                conflict |-> ChangedBoth, gone |-> ChangedAndGone,
                lost |-> hist.lost, clean |-> hist.clean]
    /\ UNCHANGED << univ, runs, ext, worldVars, saved, listVars, walkVars, up >>

\* a variant that catches the exception and goes on
Abort_GoOn(call) ==
    /\ pc' = pc
    /\ calls' = Append(calls, call)

\* an uncaught exception ends the process; the state file stays as it is
Abort(call) ==
    /\ pc' = "aborted"
    /\ calls' = Append(calls, call)

(***************************************************************************)
(* The remote pass: execute_delta.                                         *)
(***************************************************************************)
\* what a recursive listing of the remote folder holds
RemoteEntries ==
    {[kind |-> "folder", name |-> rdirs[k], path_lower |-> k, rev |-> 0] :
        k \in DOMAIN rdirs}
    \cup
    {[kind |-> "file", name |-> rfiles[k].name, path_lower |-> k,
      rev |-> rfiles[k].rev] : k \in DOMAIN rfiles}

\* the pages the service may cut from the entries it has not sent yet
Pages(S) ==
    IF S = {} THEN {{}}
    ELSE {pg \in SUBSET S : pg # {} /\ Cardinality(pg) <= MaxPage}

\* files_list_folder(path='', recursive=True)
ListFolder ==
    /\ pc = "list"
    /\ \E ok \in BOOLEAN :
          IF ok
          THEN /\ \E pg \in Pages(RemoteEntries) :
                     /\ page' = pg
                     /\ unsent' = RemoteEntries \ pg
                     /\ has_more' = (RemoteEntries \ pg # {})
               /\ current_remote_file_paths' = {}
               /\ calls' = Append(calls, Call("list", <<>>, TRUE, 0))
               /\ pc' = "entries"
               /\ UNCHANGED remote_files_keys
          ELSE /\ Abort(Call("list", <<>>, FALSE, 0))
               /\ UNCHANGED listVars
    /\ UNCHANGED << univ, runs, ext, worldVars, stateVars, saved, walkVars,
                    passStart, ordered, retry, watch, up, hist >>

\* files_list_folder_continue(cursor), when the page is done and has_more
ListContinue ==
    /\ pc = "entries"
    /\ page = {}
    /\ has_more
    /\ \E ok \in BOOLEAN :
          IF ok
          THEN /\ \E pg \in Pages(unsent) :
                     /\ page' = pg
                     /\ unsent' = unsent \ pg
                     /\ has_more' = (unsent \ pg # {})
               /\ calls' = Append(calls, Call("list_continue", <<>>, TRUE, 0))
               /\ pc' = pc
          ELSE /\ Abort(Call("list_continue", <<>>, FALSE, 0))
               /\ UNCHANGED << page, unsent, has_more >>
    /\ UNCHANGED << univ, runs, ext, worldVars, stateVars, saved,
                    current_remote_file_paths, remote_files_keys, walkVars,
                    passStart, ordered, retry, watch, up, hist >>

Exists(path) == path = <<>> \/ path \in dirs \/ path \in DOMAIN files

\* os.makedirs
MakeDirs(ds, path) == ds \cup Prefixes(path)

\* whether every folder above the entry has been processed before it
FoldersFirst(e) ==
    \A i \in 1..(Len(e.path_lower) - 1) :
        ~ \E f \in (unsent \cup page) :
              f.kind = "folder" /\ f.path_lower = SubSeq(e.path_lower, 1, i)

\* download_remote: the parent directories are made, the object at the remote
\* path '/' + path is fetched into the local file, and both maps get the same
\* record. The call raises when the service has no file there or the local
\* path cannot be written; any call may fail (network).
DownloadParent(path) ==
    IF DirName(path) # <<>> /\ ~Exists(DirName(path))
    THEN MakeDirs(dirs, DirName(path)) ELSE dirs

CanDownload(path) ==
    /\ LowerPath(path) \in DOMAIN rfiles
    /\ DirName(path) \in DownloadParent(path) \cup {<<>>}
    /\ path \notin dirs

\* a variant that records the new revision and keeps the modification time
\* of the record it replaces
download_remote_KeepModified(path, ok) ==
    /\ ok => CanDownload(path)
    /\ dirs' = DownloadParent(path)
    /\ IF ok
       THEN LET modified == IF path \in DOMAIN local_files
                            THEN local_files[path].modified ELSE clock IN
            /\ files' = Put(files, path, clock)
            /\ local_files' =
                   Put(local_files, path, Meta(rfiles[LowerPath(path)].rev, modified))
            /\ remote_files' =
                   Put(remote_files, path, Meta(rfiles[LowerPath(path)].rev, modified))
            /\ calls' = Append(calls, Call("download", path, TRUE,
                                           rfiles[LowerPath(path)].rev))
       ELSE /\ Abort(Call("download", path, FALSE, 0))
            /\ UNCHANGED << files, local_files, remote_files >>

download_remote(path, ok) ==
    /\ ok => CanDownload(path)
    /\ dirs' = DownloadParent(path)
    /\ IF ok
       THEN /\ files' = Put(files, path, clock)
            /\ local_files' =
                   Put(local_files, path, Meta(rfiles[LowerPath(path)].rev, clock))
            /\ remote_files' =
                   Put(remote_files, path, Meta(rfiles[LowerPath(path)].rev, clock))
            /\ calls' = Append(calls, Call("download", path, TRUE,
                                           rfiles[LowerPath(path)].rev))
       ELSE /\ Abort(Call("download", path, FALSE, 0))
            /\ UNCHANGED << files, local_files, remote_files >>

\* a variant that does not compare revisions
NeedsDownload_NoRev(path, rev) == path \notin DOMAIN local_files

\* whether __process_remote_entries downloads a file entry resolved to path
NeedsDownload(path, rev) ==
    \/ path \notin DOMAIN local_files
    \/ rev # local_files[path].rev

ProcessFile(e, entry_path) ==
    /\ IF NeedsDownload(entry_path, e.rev)
       THEN \E ok \in BOOLEAN :
               /\ download_remote(entry_path, ok)
               /\ IF ok
                  THEN /\ current_remote_file_paths' =
                              current_remote_file_paths \cup {entry_path}
                       /\ page' = page \ {e}
                       /\ pc' = pc
                  ELSE UNCHANGED << current_remote_file_paths, page >>
       ELSE /\ current_remote_file_paths' =
                   current_remote_file_paths \cup {entry_path}
            /\ page' = page \ {e}
            /\ UNCHANGED << pc, calls, files, dirs, local_files, remote_files >>
    /\ UNCHANGED path_case_map

\* make_local_dir: [dirs, files, local_files, crash]
make_local_dir(path) ==
    IF ~Exists(path)
    THEN [dirs |-> MakeDirs(dirs, path), files |-> files,
          local_files |-> local_files, crash |-> FALSE]
    ELSE IF path \in DOMAIN files
    THEN \* the file is removed, its record dropped (KeyError without one),
         \* and os.makedir does not exist: AttributeError
         [dirs |-> dirs, files |-> Del(files, path),
          local_files |-> Del(local_files, path), crash |-> TRUE]
    ELSE [dirs |-> dirs, files |-> files, local_files |-> local_files,
          crash |-> FALSE]

ProcessFolder(e, entry_path) ==
    /\ path_case_map' = Put(path_case_map, e.path_lower, e.name)
    /\ IF ~Exists(entry_path)
       THEN /\ dirs' = make_local_dir(entry_path).dirs
            /\ files' = make_local_dir(entry_path).files
            /\ local_files' = make_local_dir(entry_path).local_files
            /\ IF make_local_dir(entry_path).crash
               THEN /\ Abort(Call("makedir", entry_path, FALSE, 0))
                    /\ UNCHANGED page
               ELSE /\ page' = page \ {e}
                    /\ UNCHANGED << pc, calls >>
       ELSE /\ page' = page \ {e}
            /\ UNCHANGED << pc, calls, dirs, files, local_files >>
    /\ UNCHANGED << remote_files, current_remote_file_paths >>

\* one iteration of the loop of __process_remote_entries
ProcessEntry ==
    /\ pc = "entries"
    /\ \E e \in page :
          /\ ordered' = (ordered /\ FoldersFirst(e))
          /\ IF e.kind = "file"
             THEN ProcessFile(e, EntryPath(path_case_map, e.path_lower, e.name))
             ELSE ProcessFolder(e, EntryPath(path_case_map, e.path_lower, e.name))
    /\ UNCHANGED << univ, runs, ext, clock, nextRev, rfiles, rdirs, saved,
                    unsent, has_more, remote_files_keys, walkVars,
                    passStart, retry, watch, up, hist >>

\* the names os.listdir and os.walk find in directory d: the root always
\* holds the token file, and the state file once it has been saved
RootNames == {TOKEN_FILENAME} \cup (IF saved = NoState THEN {} ELSE {STATE_FILENAME})

FileNames(fs, d) ==
    {Last(f) : f \in {g \in DOMAIN fs : DirName(g) = d}}
    \cup (IF d = <<>> THEN RootNames ELSE {})

ListDir(fs, ds, d) ==
    FileNames(fs, d) \cup {Last(c) : c \in {x \in ds : DirName(x) = d}}

\* a variant that leaves the listing loop after any page
BeginDeletes_AnyPage ==
    /\ pc = "entries"
    /\ page = {}
    /\ remote_files_keys' = DOMAIN remote_files
    /\ pc' = "rdelete"
    /\ UNCHANGED << univ, runs, ext, worldVars, stateVars, saved, unsent, page,
                    has_more, current_remote_file_paths, walkVars, histVars, up,
                    hist >>

\* the listing loop ends; remote_files_keys = list(self.remote_files.keys())
BeginDeletes ==
    /\ pc = "entries"
    /\ page = {}
    /\ ~has_more
    /\ remote_files_keys' = DOMAIN remote_files
    /\ pc' = "rdelete"
    /\ UNCHANGED << univ, runs, ext, worldVars, stateVars, saved, unsent, page,
                    has_more, current_remote_file_paths, walkVars, histVars, up,
                    hist >>

\* a variant that removes the parent directory without looking into it
DirsAfterDelete_Unchecked(path) == dirs \ {DirName(path)}

\* delete_local: the directories left after the file is gone
DirsAfterDelete(path) ==
    IF /\ Exists(DirName(path))
       /\ ListDir(Del(files, path), dirs, DirName(path)) = {}
    THEN dirs \ {DirName(path)}
    ELSE dirs

\* a variant that drops the record of local_files only
delete_local_LocalOnly(path) ==
    /\ files' = Del(files, path)
    /\ local_files' = Del(local_files, path)
    /\ remote_files' = remote_files
    /\ IF DirName(path) \in DOMAIN files
       THEN /\ Abort(Call("listdir", DirName(path), FALSE, 0))
            /\ dirs' = dirs
       ELSE /\ dirs' = DirsAfterDelete(path)
            /\ UNCHANGED << pc, calls >>

\* delete_local: os.remove (an OSError is passed over), both records are
\* dropped, and the directory is removed when os.listdir finds it empty;
\* os.listdir raises when the path of the directory is a file
delete_local(path) ==
    /\ files' = Del(files, path)
    /\ local_files' = Del(local_files, path)
    /\ remote_files' = Del(remote_files, path)
    /\ IF DirName(path) \in DOMAIN files
       THEN /\ Abort(Call("listdir", DirName(path), FALSE, 0))
            /\ dirs' = dirs
       ELSE /\ dirs' = DirsAfterDelete(path)
            /\ UNCHANGED << pc, calls >>

\* a variant with the test against the listing inverted
GoneRemotely_Inverted(path) ==
    /\ path \in current_remote_file_paths
    /\ path \in DOMAIN local_files

\* whether execute_delta deletes a key of remote_files locally
GoneRemotely(path) ==
    /\ path \notin current_remote_file_paths
    /\ path \in DOMAIN local_files

\* one iteration of the loop over remote_files_keys
DeleteLocalStep ==
    /\ pc = "rdelete"
    /\ \E path \in remote_files_keys :
          /\ remote_files_keys' = remote_files_keys \ {path}
          /\ IF GoneRemotely(path)
             THEN delete_local(path)
             ELSE UNCHANGED << files, dirs, local_files, remote_files, pc, calls >>
    /\ UNCHANGED << univ, runs, ext, clock, nextRev, rfiles, rdirs,
                    path_case_map, saved, unsent, page, has_more,
                    current_remote_file_paths, walkVars, passStart, ordered,
                    retry, watch, up, hist >>

\* save_state
Pickled ==
    [path_case_map |-> path_case_map, local_files |-> local_files,
     remote_files |-> remote_files]

\* check_remote returns; __main__ saves the state
SaveAfterRemote ==
    /\ pc = "rdelete"
    /\ remote_files_keys = {}
    /\ saved' = Pickled
    /\ hist' = [hist EXCEPT !.saves = Append(hist.saves, Pickled)]
    /\ pc' = "walk"
    /\ UNCHANGED << univ, runs, ext, worldVars, stateVars, listVars, walkVars,
                    histVars, up >>

(***************************************************************************)
(* The local pass: check_local.                                            *)
(***************************************************************************)
AllDirs == {<<>>} \cup dirs

\* the filelist of check_local: os.path.join(root, filename)[2:] for every
\* valid filename of every valid root of os.walk('.')
WalkResult ==
    UNION {{Tail(WalkRoot(d) \o <<fn>>) :
               fn \in {n \in FileNames(files, d) : valid_filename_for_upload(n)}} :
           d \in {x \in AllDirs : valid_dir_for_upload(WalkRoot(x))}}

Walk ==
    /\ pc = "walk"
    /\ filelist' = WalkResult
    /\ tocheck' = WalkResult
    /\ passStart' = Append(passStart, Len(calls))
    /\ pc' = "check"
    /\ UNCHANGED << univ, runs, ext, worldVars, stateVars, saved, listVars,
                    oldlist, calls, ordered, retry, watch, up, hist >>

\* os.path.getmtime
MTime(path) == IF path \in DOMAIN files THEN files[path] ELSE 0

\* a variant that records the revision and no modification time
upload_NoMTime(path, ok) ==
    IF ok /\ RemoteCanWrite(path)
    THEN /\ rfiles' = RemoteWriteFiles(rfiles, path, nextRev)
         /\ rdirs' = RemoteWriteDirs(rdirs, path)
         /\ nextRev' = nextRev + 1
         /\ local_files' = Put(local_files, path, Meta(nextRev, 0))
         /\ remote_files' = Put(remote_files, path, Meta(nextRev, 0))
         /\ calls' = Append(calls, Call("upload", path, TRUE, nextRev))
         /\ pc' = pc
    ELSE /\ Abort(Call("upload", path, FALSE, 0))
         /\ UNCHANGED << rfiles, rdirs, nextRev, local_files, remote_files >>

\* upload: the file is written at the remote path '/' + path (overwrite) and
\* both maps get the same record, with the revision the service returns.
\* Any call of the transfer may fail (network), which ends the run.
upload(path, ok) ==
    IF ok /\ RemoteCanWrite(path)
    THEN /\ rfiles' = RemoteWriteFiles(rfiles, path, nextRev)
         /\ rdirs' = RemoteWriteDirs(rdirs, path)
         /\ nextRev' = nextRev + 1
         /\ local_files' = Put(local_files, path, Meta(nextRev, MTime(path)))
         /\ remote_files' = Put(remote_files, path, Meta(nextRev, MTime(path)))
         /\ calls' = Append(calls, Call("upload", path, TRUE, nextRev))
         /\ pc' = pc
    ELSE /\ Abort(Call("upload", path, FALSE, 0))
         /\ UNCHANGED << rfiles, rdirs, nextRev, local_files, remote_files >>

\* a variant that also uploads a file as old as its record
NeedsUpload_NotStrict(path) ==
    IF path \notin DOMAIN remote_files THEN "upload"
    ELSE IF path \notin DOMAIN local_files THEN "crash"
    ELSE IF MTime(path) >= local_files[path].modified THEN "upload"
    ELSE "skip"

\* whether check_state uploads path ("crash": the KeyError of line 83)
NeedsUpload(path) ==
    IF path \notin DOMAIN remote_files THEN "upload"
    ELSE IF path \notin DOMAIN local_files THEN "crash"
    ELSE IF MTime(path) > local_files[path].modified THEN "upload"
    ELSE "skip"

\* one iteration of the loop over filelist: check_state
CheckState ==
    /\ pc = "check"
    /\ \E path \in tocheck :
          /\ tocheck' = tocheck \ {path}
          /\ CASE NeedsUpload(path) = "upload" ->
                    \E ok \in BOOLEAN : upload(path, ok)
               [] NeedsUpload(path) = "crash" ->
                    /\ Abort(Call("check_state", path, FALSE, 0))
                    /\ UNCHANGED << rfiles, rdirs, nextRev, local_files,
                                    remote_files >>
               [] OTHER ->
                    UNCHANGED << pc, calls, rfiles, rdirs, nextRev, local_files,
                                 remote_files >>
    /\ UNCHANGED << univ, runs, ext, clock, files, dirs, path_case_map, saved,
                    listVars, filelist, oldlist, passStart, ordered, retry,
                    watch, up, hist >>

\* oldlist = list(state.local_files.keys())
BeginLocalDeletes ==
    /\ pc = "check"
    /\ tocheck = {}
    /\ oldlist' = DOMAIN local_files
    /\ pc' = "ldelete"
    /\ UNCHANGED << univ, runs, ext, worldVars, stateVars, saved, listVars,
                    filelist, tocheck, histVars, up, hist >>

\* a variant that drops the records although the call failed
delete_remote_DropAnyway(path, ok) ==
    /\ ok => LowerPath(path) \in DOMAIN rfiles
    /\ IF ok
       THEN /\ rfiles' = Del(rfiles, LowerPath(path))
            /\ retry' = retry
       ELSE /\ retry' = retry \cup {path}
            /\ UNCHANGED rfiles
    /\ local_files' = Del(local_files, path)
    /\ remote_files' = Del(remote_files, path)
    /\ calls' = Append(calls, Call("delete", path, ok, 0))

\* delete_remote: files_delete('/' + path); every exception is caught. The
\* call raises when the service has no such path; any call may fail.
delete_remote(path, ok) ==
    /\ ok => LowerPath(path) \in DOMAIN rfiles
    /\ IF ok
       THEN /\ rfiles' = Del(rfiles, LowerPath(path))
            /\ local_files' = Del(local_files, path)
            /\ remote_files' = Del(remote_files, path)
            /\ retry' = retry
       ELSE /\ retry' = retry \cup {path}
            /\ UNCHANGED << rfiles, local_files, remote_files >>
    /\ calls' = Append(calls, Call("delete", path, ok, 0))

\* one iteration of the loop over oldlist
DeleteRemoteStep ==
    /\ pc = "ldelete"
    /\ \E file \in oldlist :
          /\ oldlist' = oldlist \ {file}
          /\ IF file \notin filelist
             THEN \E ok \in BOOLEAN : delete_remote(file, ok)
             ELSE UNCHANGED << rfiles, local_files, remote_files, calls, retry >>
    /\ UNCHANGED << pc, univ, runs, ext, clock, nextRev, files, dirs, rdirs,
                    path_case_map, saved, listVars, filelist, tocheck,
                    passStart, ordered, watch, up, hist >>

\* check_local returns; __main__ saves the state: 'Sync Complete'
SaveAfterLocal ==
    /\ pc = "ldelete"
    /\ oldlist = {}
    /\ saved' = Pickled
    /\ hist' = [hist EXCEPT !.saves = Append(hist.saves, Pickled)]
    /\ pc' = "done"
    /\ UNCHANGED << univ, runs, ext, worldVars, stateVars, listVars, walkVars,
                    histVars, up >>

\* the process ends, completed or aborted; its memory is gone
Exit ==
    /\ pc \in {"done", "aborted"}
    /\ pc' = "idle"
    /\ runs' = runs + 1
    /\ local_files' = Empty
    /\ remote_files' = Empty
    /\ path_case_map' = Empty
    /\ unsent' = {}
    /\ page' = {}
    /\ has_more' = FALSE
    /\ current_remote_file_paths' = {}
    /\ remote_files_keys' = {}
    /\ filelist' = {}
    /\ tocheck' = {}
    /\ oldlist' = {}
    /\ calls' = <<>>
    /\ passStart' = <<>>
    /\ ordered' = TRUE
    /\ watch' = {}
    /\ retry' = IF pc = "aborted" THEN watch ELSE retry
    /\ hist' = [NoHist EXCEPT
                   !.lost =
                       IF pc = "aborted"
                       THEN {calls[i].path : i \in {j \in 1..Len(calls) :
                                calls[j].op = "delete" /\ calls[j].ok}}
                       ELSE {},
                   !.clean =
                       IF /\ pc = "done"
                          /\ \A i \in 1..Len(calls) : calls[i].ok
                          /\ ordered
                       THEN ext ELSE -1]
    /\ UNCHANGED << univ, ext, worldVars, saved, up >>

Next ==
    \/ External
    \/ StartRun
    \/ ListFolder
    \/ ListContinue
    \/ ProcessEntry
    \/ BeginDeletes
    \/ DeleteLocalStep
    \/ SaveAfterRemote
    \/ Walk
    \/ CheckState
    \/ BeginLocalDeletes
    \/ DeleteRemoteStep
    \/ SaveAfterLocal
    \/ Exit

Spec == Init /\ [][Next]_vars

\* a harness calls check_local again on the state of the completed run
CheckLocalAgain ==
    /\ pc = "done"
    /\ Len(passStart) < MaxPasses
    /\ pc' = "walk"
    /\ UNCHANGED << univ, runs, ext, worldVars, stateVars, saved, listVars,
                    walkVars, histVars, up, hist >>

NextTwice == Next \/ CheckLocalAgain

SpecTwice == Init /\ [][NextTwice]_vars

\* the same program over the tree two folders deep
InitDeep == InitWith(DeepUniverse) /\ up = UpIdle

SpecDeep == InitDeep /\ [][Next]_vars

\* the same program started on a local tree that holds some of the files of
\* FilterUniverse, each written at time 1, with one change by the environment
InitFilter ==
    /\ \E L \in {S \in SUBSET FilterUniverse : Cardinality(S) <= MaxInitFiles} :
          /\ files = [f \in L |-> 1]
          /\ dirs = UNION {Prefixes(DirName(f)) : f \in L}
    /\ pc = "idle"
    /\ univ = FilterChanges
    /\ runs = 0
    /\ ext = MaxExt - 1
    /\ clock = 1
    /\ nextRev = 1
    /\ rfiles = Empty
    /\ rdirs = Empty
    /\ local_files = Empty
    /\ remote_files = Empty
    /\ path_case_map = Empty
    /\ saved = NoState
    /\ unsent = {}
    /\ page = {}
    /\ has_more = FALSE
    /\ current_remote_file_paths = {}
    /\ remote_files_keys = {}
    /\ filelist = {}
    /\ tocheck = {}
    /\ oldlist = {}
    /\ calls = <<>>
    /\ passStart = <<>>
    /\ ordered = TRUE
    /\ retry = {}
    /\ watch = {}
    /\ up = UpIdle
    /\ hist = NoHist

SpecFilter == InitFilter /\ [][Next]_vars

\* the process is killed, or the machine stops
Kill ==
    /\ pc \in {"list", "entries", "rdelete", "walk", "check", "ldelete"}
    /\ pc' = "aborted"
    /\ UNCHANGED << univ, runs, ext, worldVars, stateVars, saved, listVars,
                    walkVars, histVars, up, hist >>

NextKill == Next \/ Kill

\* Photos/img.png is on both sides and in the state file, as a run leaves it
SyncedState ==
    [path_case_map |-> (<< LowerName(Photos) >> :> Photos),
     local_files |-> (<<Photos, Img>> :> Meta(1, 1)),
     remote_files |-> (<<Photos, Img>> :> Meta(1, 1))]

\* the state file of a version that had no path_case_map
LegacyState ==
    [local_files |-> (<<Photos, Img>> :> Meta(1, 1)),
     remote_files |-> (<<Photos, Img>> :> Meta(1, 1))]

RecoverUniverse == { <<Photos, Img>>, <<Notes>> }

\* the program started on that tree, with the state file as a run left it,
\* as an older version left it, unreadable or missing, with two changes by
\* the environment and a process that may be killed
InitRecover ==
    /\ saved \in {SyncedState, LegacyState, Unreadable, NoState}
    /\ files = (<<Photos, Img>> :> 1)
    /\ dirs = { <<Photos>> }
    /\ rfiles = (LowerPath(<<Photos, Img>>) :> [rev |-> 1, name |-> Img])
    /\ rdirs = (<< LowerName(Photos) >> :> Photos)
    /\ pc = "idle"
    /\ univ = RecoverUniverse
    /\ runs = 0
    /\ ext = MaxExt - 2
    /\ clock = 1
    /\ nextRev = 2
    /\ local_files = Empty
    /\ remote_files = Empty
    /\ path_case_map = Empty
    /\ unsent = {}
    /\ page = {}
    /\ has_more = FALSE
    /\ current_remote_file_paths = {}
    /\ remote_files_keys = {}
    /\ filelist = {}
    /\ tocheck = {}
    /\ oldlist = {}
    /\ calls = <<>>
    /\ passStart = <<>>
    /\ ordered = TRUE
    /\ retry = {}
    /\ watch = {}
    /\ up = UpIdle
    /\ hist = NoHist

SpecRecover == InitRecover /\ [][NextKill]_vars

\* the environment replaces a local directory by a file
Replace ==
    /\ pc = "idle"
    /\ ext < MaxExt
    /\ ext' = ext + 1
    /\ \E d \in dirs : LocalReplaceDir(d)
    /\ UNCHANGED << pc, univ, runs, stateVars, saved, listVars, walkVars,
                    calls, passStart, ordered, watch, up, hist >>

NextReplace == NextKill \/ Replace

SpecReplace == InitRecover /\ [][NextReplace]_vars

\* the same program where a folder holds a file of the folder's name
InitOrder == InitWith(OrderUniverse) /\ up = UpIdle

SpecOrder == InitOrder /\ [][Next]_vars

\* the same program where a local directory has the name of a remote folder
\* in another case
InitTwin == InitWith(TwinUniverse) /\ up = UpIdle

SpecTwin == InitTwin /\ [][Next]_vars

\* the same program where a local file has the name of a remote folder
InitFolder == InitWith(FolderUniverse) /\ up = UpIdle

SpecFolder == InitFolder /\ [][Next]_vars

\* the same program where a name is a folder at one time, a file at another
InitCase == InitWith(CaseUniverse) /\ up = UpIdle

SpecCase == InitCase /\ [][Next]_vars

(***************************************************************************)
(* The transfer of one file by upload, call by call. The file is its size; *)
(* up.pos is the read position of local_fr, up.data the length of the      *)
(* chunk read last, up.log the calls made.                                 *)
(***************************************************************************)
THRESHOLD == 140000000

CHUNK == 10000000

\* the sizes of the files uploaded
UploadSizes ==
    {0, 1, CHUNK, THRESHOLD - 1, THRESHOLD}
    \cup {THRESHOLD + k * CHUNK + d : k \in 0..MaxExtraChunks, d \in {1, CHUNK - 1, CHUNK}}

\* the session identifiers the service may return
SessionIds == {"s1", "s2"}

NoSession == "None"

NoCursor == [session_id |-> NoSession, offset |-> 0]

mainVars == << pc, univ, runs, ext, worldVars, stateVars, saved, listVars,
               walkVars, histVars, hist >>

UpCall(op, len, close, cursor, ok) ==
    [op |-> op, len |-> len, close |-> close, cursor |-> cursor, ok |-> ok]

InitUpload ==
    /\ InitWith(MainUniverse)
    /\ \E size \in UploadSizes :
          up = [phase |-> "begin", size |-> size, pos |-> 0, data |-> 0,
                close |-> FALSE, session_id |-> NoSession,
                session_cursor |-> NoCursor, offset |-> 0, log |-> <<>>]

\* local_fr.read(10000000): the length of the chunk read at position pos
ReadChunk(size, pos) == IF size - pos < CHUNK THEN size - pos ELSE CHUNK

\* a variant that sends a file of exactly the threshold in a session
UseSession_Inclusive(size) == size >= THRESHOLD

\* whether upload sends the file in a session
UseSession(size) == size > THRESHOLD

\* files_upload(data, path, overwrite, mute=True) of the whole file
UpOneShot ==
    /\ up.phase = "begin"
    /\ ~UseSession(up.size)
    /\ \E ok \in BOOLEAN :
          up' = [up EXCEPT !.phase = IF ok THEN "done" ELSE "failed",
                           !.pos = up.size,
                           !.data = up.size,
                           !.log = Append(up.log, UpCall("upload", up.size, FALSE,
                                                         NoCursor, ok))]
    /\ UNCHANGED mainVars

\* the first chunk is read
UpOpen ==
    /\ up.phase = "begin"
    /\ UseSession(up.size)
    /\ up' = [up EXCEPT !.phase = "loop",
                        !.data = ReadChunk(up.size, 0),
                        !.pos = ReadChunk(up.size, 0),
                        !.close = ReadChunk(up.size, 0) < CHUNK]
    /\ UNCHANGED mainVars

\* a variant that builds the cursor before it adds the chunk to offset
UpChunk_StaleOffset ==
    /\ up.phase = "loop"
    /\ ~up.close
    /\ \E ok \in BOOLEAN, sid \in SessionIds :
          /\ up.session_id # NoSession => sid = up.session_id
          /\ up' =
               IF ok
               THEN [up EXCEPT
                       !.session_id = sid,
                       !.offset = up.offset + up.data,
                       !.session_cursor =
                           [session_id |-> sid, offset |-> up.offset],
                       !.data = ReadChunk(up.size, up.pos),
                       !.pos = up.pos + ReadChunk(up.size, up.pos),
                       !.close = ReadChunk(up.size, up.pos) < CHUNK,
                       !.log = Append(up.log,
                                  UpCall(IF up.session_id = NoSession
                                         THEN "start" ELSE "append",
                                         up.data, up.close, up.session_cursor, TRUE))]
               ELSE [up EXCEPT
                       !.phase = "failed",
                       !.log = Append(up.log,
                                  UpCall(IF up.session_id = NoSession
                                         THEN "start" ELSE "append",
                                         up.data, up.close, up.session_cursor, FALSE))]
    /\ UNCHANGED mainVars

\* one iteration of 'while not close'
UpChunk ==
    /\ up.phase = "loop"
    /\ ~up.close
    /\ \E ok \in BOOLEAN, sid \in SessionIds :
          /\ up.session_id # NoSession => sid = up.session_id
          /\ up' =
               IF ok
               THEN [up EXCEPT
                       !.session_id = sid,
                       !.offset = up.offset + up.data,
                       !.session_cursor =
                           [session_id |-> sid, offset |-> up.offset + up.data],
                       !.data = ReadChunk(up.size, up.pos),
                       !.pos = up.pos + ReadChunk(up.size, up.pos),
                       !.close = ReadChunk(up.size, up.pos) < CHUNK,
                       !.log = Append(up.log,
                                  UpCall(IF up.session_id = NoSession
                                         THEN "start" ELSE "append",
                                         up.data, up.close, up.session_cursor, TRUE))]
               ELSE [up EXCEPT
                       !.phase = "failed",
                       !.log = Append(up.log,
                                  UpCall(IF up.session_id = NoSession
                                         THEN "start" ELSE "append",
                                         up.data, up.close, up.session_cursor, FALSE))]
    /\ UNCHANGED mainVars

\* files_upload_session_finish(data, session_cursor, commit_info)
UpFinish ==
    /\ up.phase = "loop"
    /\ up.close
    /\ \E ok \in BOOLEAN :
          up' = [up EXCEPT !.phase = IF ok THEN "done" ELSE "failed",
                           !.log = Append(up.log, UpCall("finish", up.data, up.close,
                                                         up.session_cursor, ok))]
    /\ UNCHANGED mainVars

NextUpload == UpOneShot \/ UpOpen \/ UpChunk \/ UpFinish

SpecUpload == InitUpload /\ [][NextUpload]_vars

(***************************************************************************)
(* Properties.                                                             *)
(***************************************************************************)
\* the calls of the current run that satisfy a test
CallsOf(op, path) ==
    {i \in 1..Len(calls) : calls[i].op = op /\ calls[i].path = path}

NoCallFailed == \A i \in 1..Len(calls) : calls[i].ok

\* the paths of the remote files, as a listing reports them (lower-cased)
RemoteFilePaths == DOMAIN rfiles

LowerPaths(S) == {LowerPath(p) : p \in S}

\* C1: a complete run in which no remote call failed and every folder entry
\* was processed before its children ends with the remote file paths, the
\* upload-eligible local files, the keys of local_files and the keys of
\* remote_files all equal (the remote paths are those of the local files,
\* lower-cased, one remote file for each).
C1_Convergence ==
    (pc = "done" /\ NoCallFailed /\ ordered) =>
        /\ RemoteFilePaths = LowerPaths(WalkResult)
        /\ Cardinality(RemoteFilePaths) = Cardinality(WalkResult)
        /\ WalkResult = DOMAIN local_files
        /\ DOMAIN local_files = DOMAIN remote_files

\* such a run has ended on a local tree with two files whose paths differ
\* only in case: both are walked and recorded, the service holds one file
C1_Witness ==
    /\ pc = "done"
    /\ NoCallFailed
    /\ ordered
    /\ { <<Photos, Img>>, << LowerName(Photos), Img >> } \subseteq WalkResult
    /\ { <<Photos, Img>>, << LowerName(Photos), Img >> } \subseteq DOMAIN local_files
    /\ RemoteFilePaths = { LowerPath(<<Photos, Img>>) }

\* C2: in the remote pass a file entry is downloaded exactly when its resolved
\* path is no key of local_files or is recorded there with another revision;
\* after the download the file exists locally and both maps hold the same
\* record, with the revision the download returned; an entry recorded with
\* its own revision causes no download and no change of the state.
C2_Step ==
    pc = "entries" =>
        /\ \A e \in page :
              (e.kind = "file" /\ e \notin page') =>
                 LET path == EntryPath(path_case_map, e.path_lower, e.name) IN
                 IF path \notin DOMAIN local_files \/ local_files[path].rev # e.rev
                 THEN /\ calls' = Append(calls, Call("download", path, TRUE,
                                                     rfiles[LowerPath(path)].rev))
                      /\ path \in DOMAIN files'
                      /\ local_files'[path] = remote_files'[path]
                      /\ local_files'[path].rev = rfiles[LowerPath(path)].rev
                 ELSE /\ calls' = calls
                      /\ UNCHANGED << local_files, remote_files, path_case_map,
                                      files, dirs >>
        /\ (Len(calls') > Len(calls) /\ Last(calls').op = "download") =>
              \E e \in page :
                 LET path == EntryPath(path_case_map, e.path_lower, e.name) IN
                 /\ e.kind = "file"
                 /\ Last(calls').path = path
                 /\ path \notin DOMAIN local_files \/ local_files[path].rev # e.rev

C2_Download == [][C2_Step]_vars

\* a file recorded with one revision has been downloaded again with another
C2_Witness ==
    /\ pc = "entries"
    /\ saved # NoState
    /\ \E i \in 1..Len(calls) :
          /\ calls[i].op = "download"
          /\ calls[i].ok
          /\ calls[i].path \in DOMAIN saved.local_files
          /\ saved.local_files[calls[i].path].rev # calls[i].rev
          /\ local_files[calls[i].path].rev = calls[i].rev

\* C3: in the local pass a walked file is uploaded exactly when its path is no
\* key of remote_files or its modification time is strictly newer than the
\* recorded one; after the pass both maps record for it the revision that
\* upload call returned and the file's modification time.
C3_Step ==
    /\ (pc = "check" /\ tocheck' # tocheck) =>
          \A path \in tocheck \ tocheck' :
             (\/ path \notin DOMAIN remote_files
              \/ MTime(path) > remote_files[path].modified)
             <=>
             (/\ Len(calls') = Len(calls) + 1
              /\ Last(calls').op = "upload"
              /\ Last(calls').path = path)
    /\ pc' = "done" =>
          \A i \in 1..Len(calls') :
             (calls'[i].op = "upload" /\ calls'[i].ok) =>
                /\ calls'[i].path \in DOMAIN remote_files'
                /\ calls'[i].path \in DOMAIN local_files'
                /\ remote_files'[calls'[i].path].rev = calls'[i].rev
                /\ local_files'[calls'[i].path].rev = calls'[i].rev
                /\ remote_files'[calls'[i].path].modified = files'[calls'[i].path]
                /\ rfiles'[LowerPath(calls'[i].path)].rev = calls'[i].rev

C3_Upload == [][C3_Step]_vars

\* the upload phase has sent a file the checkpoint knew and a new one
C3_Witness ==
    /\ pc = "ldelete"
    /\ \E i, j \in 1..Len(calls) :
          /\ calls[i].op = "upload" /\ calls[i].ok
          /\ calls[j].op = "upload" /\ calls[j].ok
          /\ calls[i].path \in DOMAIN saved.remote_files
          /\ calls[j].path \notin DOMAIN saved.remote_files

\* C4: in the deletion loop of the remote pass every key of remote_files that
\* the listing did not report as a file is removed from the disk and from
\* both maps, and its parent directory is removed exactly when that left it
\* empty, no other directory; when the pass ends every key left was reported.
C4_Step ==
    pc = "rdelete" =>
        /\ \A p \in remote_files_keys \ remote_files_keys' :
              LowerPath(p) \notin DOMAIN rfiles =>
                 /\ p \notin DOMAIN files'
                 /\ p \notin DOMAIN local_files'
                 /\ p \notin DOMAIN remote_files'
                 /\ dirs' =
                      IF /\ DirName(p) \in dirs
                         /\ ~ \E f \in DOMAIN files' : DirName(f) = DirName(p)
                         /\ ~ \E d \in dirs : DirName(d) = DirName(p)
                      THEN dirs \ {DirName(p)}
                      ELSE dirs
        /\ pc' = "walk" =>
              \A p \in DOMAIN remote_files' \cup DOMAIN local_files' :
                 LowerPath(p) \in DOMAIN rfiles

C4_RemoteDeletion == [][C4_Step]_vars

\* the remote pass has deleted Photos/Trip/img.png and with it the emptied
\* directory Photos/Trip, and has left the now empty directory Photos
C4_Witness ==
    /\ pc = "rdelete"
    /\ remote_files_keys = {}
    /\ saved # NoState
    /\ <<Photos, Trip, Img>> \in DOMAIN saved.remote_files
    /\ <<Photos, Trip, Img>> \notin DOMAIN remote_files
    /\ <<Photos, Trip>> \notin dirs
    /\ <<Photos>> \in dirs
    /\ ListDir(files, dirs, <<Photos>>) = {}

\* C5: in the deletion loop of the local pass, a path gets a remote delete
\* call exactly when it was a key of local_files after the upload phase and
\* is not in the walk result, and then exactly one; after a successful call
\* the path is in neither map, after a failed one both records are as before.
C5_LocalDeletion ==
    pc = "ldelete" =>
        \A p \in DOMAIN saved.local_files \cup filelist
                 \cup {calls[i].path : i \in 1..Len(calls)} :
           IF p \in DOMAIN saved.local_files /\ p \notin filelist /\ p \notin oldlist
           THEN /\ Cardinality(CallsOf("delete", p)) = 1
                /\ \A i \in CallsOf("delete", p) :
                      IF calls[i].ok
                      THEN /\ p \notin DOMAIN local_files
                           /\ p \notin DOMAIN remote_files
                      ELSE /\ p \in DOMAIN local_files
                           /\ p \in DOMAIN remote_files
                           /\ local_files[p] = saved.local_files[p]
                           /\ remote_files[p] = saved.remote_files[p]
           ELSE CallsOf("delete", p) = {}

\* the loop is over: one remote delete has succeeded and another has failed
C5_Witness ==
    /\ pc = "ldelete"
    /\ oldlist = {}
    /\ \E i, j \in 1..Len(calls) :
          /\ calls[i].op = "delete" /\ calls[i].ok
          /\ calls[j].op = "delete" /\ ~calls[j].ok

C7_Idempotent ==
    Len(passStart) >= 2 =>
        /\ \A i \in 1..Len(calls) : i > passStart[2] => calls[i].op # "upload"
        /\ pc # "aborted"
        /\ pc \in {"ldelete", "done"} =>
              \A p \in DOMAIN local_files \cup DOMAIN remote_files :
                 /\ p \in DOMAIN saved.local_files
                 /\ p \in DOMAIN local_files
                 /\ p \in DOMAIN remote_files
                 /\ local_files[p] = saved.local_files[p]
                 /\ remote_files[p] = saved.remote_files[p]

\* a second pass has ended after a first pass that uploaded two files
C7_Witness ==
    /\ Len(passStart) = 2
    /\ pc = "done"
    /\ \E i, j \in (passStart[1] + 1)..passStart[2] :
          /\ i # j
          /\ calls[i].op = "upload"
          /\ calls[j].op = "upload"
    /\ Cardinality(filelist) >= 2

\* C8: a file of at most 140,000,000 bytes is sent by one one-shot upload call
\* and no session call; a larger file by one session start, then appends,
\* then one session finish, in that order and with no one-shot call; start
\* and every append carry exactly 10,000,000 bytes, finish carries fewer
\* (possibly none), so the bytes sent before finish are a multiple of the
\* chunk size.
C8_Protocol ==
    LET log == up.log IN
    up.phase \in {"loop", "done", "failed"} =>
        IF up.size <= 140000000
        THEN /\ Len(log) = 1
             /\ log[1].op = "upload"
             /\ log[1].len = up.size
        ELSE /\ \A i \in 1..Len(log) :
                   /\ log[i].op \in {"start", "append", "finish"}
                   /\ log[i].op = "start" <=> i = 1
                   /\ log[i].op = "finish" =>
                         i = Len(log) /\ i > 1 /\ log[i].len < 10000000
                   /\ log[i].op \in {"start", "append"} => log[i].len = 10000000
             /\ up.phase = "done" =>
                   /\ Len(log) >= 2
                   /\ Last(log).op = "finish"
                   /\ up.offset % 10000000 = 0
                   /\ up.offset = 10000000 * (Len(log) - 1)

\* a session has ended with an empty finish, another with a one-byte finish
C8_Witness ==
    /\ up.phase = "done"
    /\ up.size = 150000000
    /\ Last(up.log).op = "finish"
    /\ Last(up.log).len = 0
    /\ Len(up.log) = 16

\* the names and the directories the exclusion rules name
ExcludedName(n) ==
    \/ n = STATE_FILENAME
    \/ n[1] \in {".", "@"}
    \/ n[Len(n)] = "~"
    \/ EndsWith(n, <<".", "p", "y", "c">>)
    \/ EndsWith(n, <<".", "p", "y", "o">>)
    \/ EndsWith(n, <<"T", "h", "u", "m", "b", "s", ".", "d", "b">>)

ExcludedDir(d) ==
    \/ \E i \in 1..Len(d) : d[i][1] = "."
    \/ /\ Len(d) >= 1
       /\ \/ StartsWith(d[1], <<"s", "i", "t", "e">>)
          \/ d[1] = Temp
          \/ d[1] = Examples

\* C10: no upload call is ever issued, and no path is ever selected by the
\* walk, for a file whose name is the state file's name, starts with "." or
\* "@", ends with "~", ".pyc", ".pyo" or "Thumbs.db", or that lies in a
\* directory with a hidden segment or whose first segment starts with "site"
\* or is "temp" or "Examples".
C10_Exclusion ==
    /\ \A i \in 1..Len(calls) :
          calls[i].op = "upload" =>
             ~ExcludedName(Last(calls[i].path)) /\ ~ExcludedDir(DirName(calls[i].path))
    /\ \A p \in filelist : ~ExcludedName(Last(p)) /\ ~ExcludedDir(DirName(p))

\* the walk has left out two files on the disk, and a file of Photos/temp,
\* which it selected, has been uploaded
C10_Witness ==
    /\ pc = "done"
    /\ Cardinality({p \in DOMAIN files :
                       ExcludedName(Last(p)) \/ ExcludedDir(DirName(p))}) >= 2
    /\ \E i \in 1..Len(calls) :
          /\ calls[i].op = "upload"
          /\ calls[i].path = <<Photos, Temp, Notes>>

\* the ancestor folders of a listed entry are all registered in path_case_map
AncestorsRegistered(e) ==
    \A i \in 1..(Len(e.path_lower) - 1) :
       SubSeq(e.path_lower, 1, i) \in DOMAIN path_case_map

\* the registered casing of each ancestor segment, then the entry's own name
RegisteredThenName(e) ==
    [i \in 1..Len(e.path_lower) |->
        IF i < Len(e.path_lower)
        THEN path_case_map[SubSeq(e.path_lower, 1, i)]
        ELSE e.name]

\* C9: a listed file entry all of whose ancestor folders are registered in
\* path_case_map resolves to the registered casing of each ancestor segment
\* joined with the entry's own display name; so the entry photos/img.png
\* named img.png resolves to Photos/img.png once folder Photos is registered.
C9_CaseResolution ==
    pc = "entries" =>
       \A e \in page :
          (e.kind = "file" /\ AncestorsRegistered(e)) =>
             EntryPath(path_case_map, e.path_lower, e.name) = RegisteredThenName(e)

\* the calls whose exception nothing catches
TransferOps == {"list", "list_continue", "download", "upload"}

FailedTransfer(c) == c.op \in TransferOps /\ ~c.ok

\* the state file holds what the run saved last, or what the run found
LastCheckpoint == IF hist.saves = <<>> THEN hist.loaded ELSE Last(hist.saves)

C11_State ==
    /\ pc \in {"list", "entries", "rdelete"} => Len(hist.saves) = 0
    /\ pc \in {"walk", "check", "ldelete"} => Len(hist.saves) = 1
    /\ pc = "done" => Len(hist.saves) = 2
    /\ pc = "aborted" => Len(hist.saves) = Len(passStart)
    /\ pc # "idle" => saved = LastCheckpoint
    /\ \A i \in 1..Len(calls) :
          /\ FailedTransfer(calls[i]) => i = Len(calls) /\ pc = "aborted"
          /\ passStart # <<>> =>
                IF i <= passStart[1]
                THEN calls[i].op \in {"list", "list_continue", "download"}
                ELSE calls[i].op \in {"upload", "delete"}
    /\ pc = "aborted" => calls # <<>> /\ FailedTransfer(Last(calls))

C11_Step ==
    /\ pc = "aborted" =>
          pc' = "idle" /\ UNCHANGED << files, dirs, rfiles, rdirs, saved >>
    /\ pc' = "walk" => pc = "rdelete" /\ saved' = Pickled
    /\ pc' = "done" => pc = "ldelete" /\ saved' = Pickled
    /\ saved' # saved => pc' \in {"walk", "done"}

\* C11: a run saves the state once after the remote pass and once after the
\* local pass, in the order load, remote pass, save, local pass, save. A failed
\* listing, download or upload call is the last call of its run: the run makes
\* no later call, changes no file and saves nothing, and the state file holds
\* the last completed save (what the run loaded when the failure is in the
\* remote pass, the checkpoint of the remote pass when it is in the local pass).
C11_Checkpoint == [] C11_State /\ [][C11_Step]_vars

\* an upload has failed after another one succeeded: the state file holds
\* the checkpoint of the remote pass, without the record of the upload
C11_Witness ==
    /\ pc = "aborted"
    /\ Len(passStart) = 1
    /\ Last(calls).op = "upload"
    /\ \E i \in 1..(Len(calls) - 1) : calls[i].op = "upload" /\ calls[i].ok
    /\ saved = hist.saves[1]
    /\ saved # hist.loaded
    /\ saved # Pickled

C12_Step ==
    /\ pc = "idle" /\ pc' # "idle" =>
          /\ pc' = "list"
          /\ IF saved \in {NoState, Unreadable}
             THEN /\ path_case_map' = Empty
                  /\ local_files' = Empty
                  /\ remote_files' = Empty
             ELSE /\ local_files' = saved.local_files
                  /\ remote_files' = saved.remote_files
                  /\ path_case_map' = IF "path_case_map" \in DOMAIN saved
                                      THEN saved.path_case_map ELSE Empty
    /\ saved' # saved =>
          saved' = [path_case_map |-> path_case_map, local_files |-> local_files,
                    remote_files |-> remote_files]

\* C12: load_state never ends the run: with no state file, or one that cannot
\* be deserialized, the run starts from empty path_case_map, local_files and
\* remote_files; otherwise it starts from the maps of the state file, which
\* are those of the state save_state wrote last (a state file of a version
\* without path_case_map gets an empty one).
C12_Load == [][C12_Step]_vars

\* a second run has loaded what the first run saved, with the record of a
\* file the first run sent
C12_Witness ==
    /\ pc = "list"
    /\ runs = 1
    /\ hist.loaded \notin {NoState, Unreadable}
    /\ "path_case_map" \in DOMAIN hist.loaded
    /\ hist.loaded.path_case_map # Empty
    /\ hist.loaded.local_files # Empty
    /\ local_files = hist.loaded.local_files
    /\ path_case_map = hist.loaded.path_case_map
    /\ <<Notes>> \in DOMAIN local_files

C13_Step ==
    pc = "rdelete" =>
       \A path \in remote_files_keys \ remote_files_keys' :
          (/\ path \notin current_remote_file_paths
           /\ path \in DOMAIN local_files
           /\ path \notin DOMAIN files) =>
             /\ pc' = "rdelete"
             /\ calls' = calls
             /\ files' = files
             /\ path \notin DOMAIN local_files'
             /\ path \notin DOMAIN remote_files'

C13_Repaired ==
    pc = "walk" =>
       \A path \in hist.lost :
          LowerPath(path) \notin DOMAIN rfiles =>
             /\ path \notin DOMAIN local_files
             /\ path \notin DOMAIN remote_files
             /\ path \notin DOMAIN saved.local_files

\* C13: when the remote pass deletes a path locally whose file is already
\* missing from the disk, the pass goes on without an error and the path's
\* record leaves local_files and remote_files; so after a run that ended
\* between a successful remote delete and its save, the next run's remote pass
\* completes and drops the record.
C13_IdempotentDelete == [] C13_Repaired /\ [][C13_Step]_vars

\* Photos/img.png is recorded and gone from both sides, Photos is a local
\* file: the remote pass has ended in delete_local, the state file unchanged
C13_Witness ==
    /\ pc = "aborted"
    /\ calls # <<>>
    /\ Last(calls) = Call("listdir", <<Photos>>, FALSE, 0)
    /\ <<Photos>> \in DOMAIN files
    /\ LowerPath(<<Photos, Img>>) \notin DOMAIN rfiles
    /\ saved = hist.loaded
    /\ saved \notin {NoState, Unreadable}
    /\ <<Photos, Img>> \in DOMAIN saved.local_files

\* C14: the local pass issues a remote delete for a path only if no file is
\* at that path on the local disk at the time of the walk (the disk does not
\* change between the walk and the end of the pass).
C14_DeleteOnlyGone ==
    pc \in {"ldelete", "done"} =>
       \A i \in 1..Len(calls) :
          calls[i].op = "delete" => calls[i].path \notin DOMAIN files

\* the run downloaded .h, which the walk leaves out, and then deleted it
\* remotely while the file is on the disk
C14_Witness ==
    /\ pc = "done"
    /\ \E i, j \in 1..Len(calls) :
          /\ i < j
          /\ calls[i] = Call("download", <<Hidden>>, TRUE, calls[i].rev)
          /\ calls[j] = Call("delete", <<Hidden>>, TRUE, 0)
    /\ <<Hidden>> \in DOMAIN files
    /\ <<Hidden>> \notin filelist
    /\ LowerPath(<<Hidden>>) \notin DOMAIN rfiles

C15_Step ==
    pc = "entries" =>
       \A e \in page \ page' :
          e.kind = "folder" =>
             LET path == EntryPath(path_case_map, e.path_lower, e.name) IN
             /\ e.path_lower \in DOMAIN path_case_map'
             /\ path_case_map'[e.path_lower] = e.name
             /\ ~Exists(path) => path \in dirs'
             /\ path \in DOMAIN files =>
                   /\ path \notin DOMAIN files'
                   /\ path \notin DOMAIN local_files'
                   /\ path \in dirs'

\* C15: the remote pass registers the display name of a folder entry in
\* path_case_map under its lower-cased path and creates the directory when
\* nothing is at its local path; when a local file is at that path, the file
\* is removed, its record leaves local_files, and the directory is created.
C15_FolderEntry == [][C15_Step]_vars

\* the folder entry Photos has been processed while a local file Photos, with
\* its record, is at that path: the file and the record are still there
C15_Witness ==
    /\ pc = "entries"
    /\ << LowerName(Photos) >> \in DOMAIN path_case_map
    /\ hist.loaded # NoState
    /\ << LowerName(Photos) >> \notin DOMAIN hist.loaded.path_case_map
    /\ <<Photos>> \in DOMAIN files
    /\ <<Photos>> \in DOMAIN local_files
    /\ <<Photos>> \notin dirs

\* the bytes carried by the first n calls of a log
RECURSIVE SentBefore(_, _)
SentBefore(log, n) == IF n = 0 THEN 0 ELSE SentBefore(log, n - 1) + log[n].len

\* C16: for a file above the threshold, every append and the finish carry the
\* session id the start returned, and a cursor offset equal to the bytes the
\* earlier calls of the session carried; the chunk in hand starts where the
\* bytes sent end, so the chunks are the file's bytes in order, each once, and
\* at the finish the offset plus the last chunk's length is the file size.
C16_Cursor ==
    LET log == up.log IN
    (up.phase \in {"loop", "done", "failed"} /\ up.size > THRESHOLD) =>
        /\ \A i \in 1..Len(log) :
              log[i].op \in {"append", "finish"} =>
                 /\ up.session_id \in SessionIds
                 /\ log[i].cursor.session_id = up.session_id
                 /\ log[i].cursor.offset = SentBefore(log, i - 1)
        /\ up.phase = "loop" => up.pos = SentBefore(log, Len(log)) + up.data
        /\ up.phase = "done" =>
              /\ Last(log).op = "finish"
              /\ Last(log).cursor.offset + Last(log).len = up.size
              /\ SentBefore(log, Len(log)) = up.size

\* a file of the threshold and one byte has been sent in session s2: fourteen
\* chunks, then a finish at offset 140,000,000 that carries the last byte
C16_Witness ==
    /\ up.phase = "done"
    /\ up.size = THRESHOLD + 1
    /\ Len(up.log) = 15
    /\ up.log[15].op = "finish"
    /\ up.log[15].cursor = [session_id |-> "s2", offset |-> THRESHOLD]
    /\ up.log[15].len = 1
    /\ up.log[2].cursor = [session_id |-> "s2", offset |-> CHUNK]

C17_State ==
    pc \in {"rdelete", "walk"} =>
       /\ page = {}
       /\ unsent = {}
       /\ ~has_more
       /\ \A k \in DOMAIN rfiles :
             \E path \in current_remote_file_paths : LowerPath(path) = k

C17_Step ==
    /\ (pc # "idle" /\ DOMAIN files' # DOMAIN files \cup DOMAIN files') =>
          pc = "rdelete"
    /\ pc = "rdelete" =>
          \A path \in (DOMAIN files \ DOMAIN files')
                         \cup (DOMAIN local_files \ DOMAIN local_files') :
             path \notin current_remote_file_paths

\* C17: the remote pass has processed every page of the listing, going on
\* while has_more is set, before it deletes anything locally: in the deletion
\* loop no entry is left unprocessed, every remote file has its local path
\* among current_remote_file_paths, and no path of that set, whichever page
\* reported it, is deleted locally in the pass.
C17_PagedListing == [] C17_State /\ [][C17_Step]_vars

\* the listing came in more than one page; the pass deleted a recorded file
\* that was not listed and kept one that was listed
C17_Witness ==
    /\ pc = "walk"
    /\ \E i \in 1..Len(calls) : calls[i].op = "list_continue"
    /\ hist.loaded # NoState
    /\ \E path \in DOMAIN hist.loaded.local_files :
          path \notin DOMAIN local_files /\ path \notin DOMAIN files
    /\ \E path \in current_remote_file_paths :
          path \in DOMAIN hist.loaded.local_files /\ path \in DOMAIN files

\* the file entries of the page whose parent folder is listed and has never
\* been registered in path_case_map
BeforeParent ==
    {e \in page :
        /\ e.kind = "file"
        /\ Len(e.path_lower) > 1
        /\ DirName(e.path_lower) \in DOMAIN rdirs
        /\ DirName(e.path_lower) \notin DOMAIN path_case_map}

\* how the entry resolves now, and how once its parent folder is registered
ResolvedNow(e) == EntryPath(path_case_map, e.path_lower, e.name)

ResolvedAfterParent(e) ==
    EntryPath(Put(path_case_map, DirName(e.path_lower), rdirs[DirName(e.path_lower)]),
              e.path_lower, e.name)

\* C18 as stated: a file entry processed before its parent folder has ever
\* been registered gets the folder segment filled with its own display name,
\* and so resolves to another local path than with the folder registered.
C18_Original ==
    pc = "entries" =>
       \A e \in BeforeParent :
          /\ ResolvedNow(e)[Len(e.path_lower) - 1] = e.name
          /\ ResolvedNow(e) # ResolvedAfterParent(e)

\* C18: a file entry processed before its parent folder has ever been
\* registered gets the folder segment filled with its own display name; with
\* the folder registered the segment is the folder's display name, so the two
\* local paths differ exactly when the folder's display name differs from the
\* file's (a file a in a folder a resolves to a/a either way).
C18_OrderDependent ==
    pc = "entries" =>
       \A e \in BeforeParent :
          LET n == Len(e.path_lower) - 1
              folder == rdirs[DirName(e.path_lower)] IN
          /\ ResolvedNow(e)[n] = e.name
          /\ ResolvedAfterParent(e)[n] = folder
          /\ ResolvedNow(e)[n + 1] = ResolvedAfterParent(e)[n + 1]
          /\ (ResolvedNow(e) # ResolvedAfterParent(e)) <=> (folder # e.name)

\* the entry of photos/img.png was processed before the folder Photos was
\* registered: it resolved to img.png/img.png, which the service does not
\* have, and the download ended the run
C18_Witness ==
    /\ pc = "aborted"
    /\ ~ordered
    /\ Last(calls) = Call("download", <<Img, Img>>, FALSE, 0)
    /\ << LowerName(Photos) >> \notin DOMAIN path_case_map
    /\ <<Img>> \in dirs

\* C19: in every state reached from the empty state by remote passes, local
\* passes, failed remote deletes and aborted runs, local_files and
\* remote_files have the same keys and the same record under every key, in
\* memory and in the state file.
C19_MapAgreement ==
    /\ DOMAIN local_files = DOMAIN remote_files
    /\ \A path \in DOMAIN local_files :
          /\ local_files[path].rev = remote_files[path].rev
          /\ local_files[path].modified = remote_files[path].modified
    /\ saved \notin {NoState, Unreadable} =>
          /\ DOMAIN saved.local_files = DOMAIN saved.remote_files
          /\ \A path \in DOMAIN saved.local_files :
                saved.local_files[path] = saved.remote_files[path]

\* a run has ended in a failed upload, after a run whose remote delete
\* failed: the record of the undeleted path is in both maps
C19_Witness ==
    /\ pc = "aborted"
    /\ passStart # <<>>
    /\ Last(calls).op = "upload"
    /\ watch # {}
    /\ \A path \in watch :
          path \in DOMAIN local_files /\ path \in DOMAIN remote_files

\* C20: of a recorded path that, when the run starts, has another revision
\* remotely and a local file newer than its record, the remote pass downloads
\* the remote revision over the local file and the local pass uploads
\* nothing, so the remote file keeps its revision; a recorded path that is
\* gone remotely and newer locally is deleted locally, with its record, and
\* not uploaded.
C20_Conflict ==
    pc \in {"walk", "check", "ldelete", "done"} =>
       /\ \A path \in hist.conflict :
             /\ \E i \in CallsOf("download", path) :
                   /\ calls[i].ok
                   /\ LowerPath(path) \in DOMAIN rfiles =>
                         rfiles[LowerPath(path)].rev = calls[i].rev
             /\ CallsOf("upload", path) = {}
             /\ path \in DOMAIN files
       /\ \A path \in hist.gone :
             /\ path \notin DOMAIN files
             /\ path \notin DOMAIN local_files
             /\ CallsOf("upload", path) = {}

\* the file a was changed on both sides after a run had recorded it: the run
\* has ended with a download of a and no upload at all
C20_Witness ==
    /\ pc = "done"
    /\ <<Notes>> \in hist.conflict
    /\ \A i \in 1..Len(calls) : calls[i].op # "upload"
    /\ hist.loaded # NoState
    /\ files[<<Notes>>] > hist.loaded.local_files[<<Notes>>].modified
    /\ local_files[<<Notes>>].rev # hist.loaded.local_files[<<Notes>>].rev

\* the run under way was started after a run that completed with no call
\* failed and every folder processed before what it holds, and the
\* environment has changed nothing since that run
AfterCleanRun == pc # "idle" /\ hist.clean = ext

\* the calls that transfer or delete a file
SyncOps == {"download", "upload", "delete"}

NoSyncCall == \A i \in 1..Len(calls) : calls[i].op \notin SyncOps

\* C21: after a complete run in which no call failed and every folder entry
\* was listed before its children, a second complete run with no change by the
\* environment in between makes no download, no upload, no local delete and
\* no remote delete, and ends with local_files, remote_files and
\* path_case_map as it loaded them. (A local delete drops a record of
\* local_files that only a download or an upload puts back.)
C21_Quiescence ==
    (pc = "done" /\ AfterCleanRun) =>
        /\ NoSyncCall
        /\ local_files = hist.loaded.local_files
        /\ remote_files = hist.loaded.remote_files
        /\ path_case_map = hist.loaded.path_case_map

\* such a second run has completed, itself with no call failed and every
\* folder processed first: it has downloaded photos/img.png of the service to
\* Photos/img.png and deleted the local file photos/img.png that the first
\* run uploaded and recorded
C21_Witness ==
    /\ pc = "done"
    /\ AfterCleanRun
    /\ ordered
    /\ NoCallFailed
    /\ \E i \in 1..Len(calls) :
          /\ calls[i].op = "download"
          /\ calls[i].path = <<Photos, Img>>
    /\ << LowerName(Photos), Img >> \in DOMAIN hist.loaded.local_files
    /\ << LowerName(Photos), Img >> \notin DOMAIN local_files
    /\ << LowerName(Photos), Img >> \notin DOMAIN files

====
